---- MODULE Spec2Model ----
(***************************************************************************)
(* Model of ninja_boost's request gates: the idempotent decorator          *)
(* (idempotency.py) over a Django cache and the cache keys it builds, the  *)
(* rate limiter (rate_limiting.py) with its InMemoryBackend and            *)
(* CacheBackend, the wiring of rate limits onto a route by the decorators  *)
(* and AutoRouter (router.py, async_support.py), the denial path of the    *)
(* rate-limit wrappers through the event bus (events.py), and              *)
(* auto_paginate (pagination.py).                                          *)
(***************************************************************************)
EXTENDS Integers, Sequences, FiniteSets, TLC

\* ------------------------------------------------------------------ bounds
MaxTime == 2         \* clock ticks the idempotency model runs for
LockTtl == 1         \* LOCK_TTL of the settings, in ticks
ResultTtl == 2       \* resolved_ttl of the decorator, in ticks

\* Two requests to the idempotent view, in flight together or one after the other.
Calls == {"r1", "r2"}
NoCall == "<nobody>"
IdemKeys == {"k1", "k2"}
NoKey == "<no header>"
Methods == {"POST", "GET"}
\* _methods of idempotent(): the default ["POST", "PATCH"]
_methods == {"POST", "PATCH"}

TicksPerSec == 2     \* clock ticks per second of time.time()
MaxWindow == 1       \* largest window of a rate, in seconds
MaxLimit == 2        \* largest limit of a rate
MaxRTime == 2        \* clock ticks the rate-limit model runs for
MaxChecks == 3       \* rate-limit checks made in one run
MaxSeqTime == 4      \* clock ticks the run of one-after-the-other checks lasts
MaxRegistered == 2   \* handlers registered on the event bus, in all
MaxRetry == 2        \* largest retry_after a denial carries
MaxItems == 4        \* items of the short lists a paginated view returns

Threads == {"t1", "t2"}
SeqThread == "t1"
RLKeys == {"ip:1"}
NoCounter == [count |-> 0, exp |-> 0]

\* ------------------------------------------------------------ cache values
None == "None"
_LOCK_SENTINEL == "__LOCK__"
JsonError == "<raises>"

\* What the wrapped view can return: a list, a tuple, an object that json can
\* only write through default=str, and a value json.dumps rejects (a circular
\* reference).
Results == {"list[1,2]", "tuple(1,2)", "object<o>", "cyclic"}

\* json.dumps(result, default=str)
json_dumps(v) ==
  CASE v = "None" -> "null"
    [] v = "list[1,2]" -> "[1, 2]"
    [] v = "tuple(1,2)" -> "[1, 2]"
    [] v = "object<o>" -> "\"o\""
    [] v = "str'o'" -> "\"o\""
    [] OTHER -> JsonError

\* json.loads(stored)
json_loads(s) ==
  CASE s = "null" -> "None"
    [] s = "[1, 2]" -> "list[1,2]"
    [] s = "\"o\"" -> "str'o'"
    [] OTHER -> JsonError

NoEntry == [val |-> None, exp |-> 0, owner |-> NoCall]

\* ------------------------------------------------------------- key building
\* The values a user id can be: None, an int, a str. s is what str() and an
\* f-string make of the value.
PyNone == [t |-> "NoneType", s |-> "None"]
PyInt(s) == [t |-> "int", s |-> s]
PyStr(s) == [t |-> "str", s |-> s]
UserIds == {PyNone, PyInt("0"), PyInt("7"), PyStr(""), PyStr("anon"), PyStr("a"), PyStr("a:b")}
DictIds == {PyNone, PyInt("0"), PyInt("7")}

\* bool(v): None, 0 and "" are falsy
truthy(v) == ~(v = PyNone \/ v = PyInt("0") \/ v = PyStr(""))
\* a or b
py_or(a, b) == IF truthy(a) THEN a ELSE b

\* ctx["user"]: missing, a dict with "id" and "user_id", or an object with .id
NoUser == [kind |-> "None", id |-> PyNone, user_id |-> PyNone]
CtxUsers ==
  {NoUser}
    \cup {[kind |-> "dict", id |-> i, user_id |-> u] : i \in DictIds, u \in DictIds}
    \cup {[kind |-> "object", id |-> i, user_id |-> PyNone] : i \in UserIds}

Callers == {"A", "B"}
KeyStrings == {"k", "b:k"}
FuncNames == {"api.pay", "api.refund"}
Scopes == {"user", "global"}
NotBuilt == "<not built>"
\* _prefix(): the PREFIX setting, "boost:idem" by default
_prefix == "boost:idem"

\* _extract_user_id(ctx)
_extract_user_id(user) ==
  IF user.kind = "None" THEN PyNone
  ELSE IF user.kind = "dict" THEN py_or(user.id, user.user_id)
  ELSE user.id

\* hashlib.sha256(raw.encode()).hexdigest()[:32]: a digest of raw; two texts
\* have one digest only if they are one text (no collision among the texts of
\* the model).
sha256_32(raw) == "sha256[:32](" \o raw \o ")"

\* _build_cache_key(idempotency_key, user_id, scope, func_name)
_build_cache_key(idempotency_key, user_id, sc, fn) ==
  LET scope_part == IF sc = "global" THEN "global"
                    ELSE "user:" \o py_or(user_id, PyStr("anon")).s
      raw == fn \o ":" \o scope_part \o ":" \o idempotency_key
  IN _prefix \o ":" \o sha256_32(raw)

\* --------------------------------------------------------- rate expressions
\* A rate expression is written as its fields, the texts between the "/" of
\* the string: <<"10", "hour">> is "10/hour", <<"10">> has no "/",
\* <<"10", "hour", "x">> has two.
NoRate == <<>>
RateExprs ==
  {<<"10", "hour">>, <<"1", "second">>, <<"5", "minute">>, <<"2", "day">>,
   <<"0", "minute">>, <<"-1", "hour">>, <<"10", "week">>, <<"10">>,
   <<"10", "hour", "x">>, <<"ten", "hour">>, <<" 5 ", " day ">>, <<"10", "HOUR">>}

\* the string of the expression
RECURSIVE Join(_)
Join(e) ==
  IF Len(e) = 0 THEN ""
  ELSE IF Len(e) = 1 THEN e[1]
  ELSE e[1] \o "/" \o Join(Tail(e))

\* str.lower() and str.strip() on the fields of RateExprs
lower(s) == IF s = "HOUR" THEN "hour" ELSE s
strip(s) ==
  CASE s = " 5 " -> "5"
    [] s = " day " -> "day"
    [] OTHER -> s

\* int(s): the texts int() reads, and what it reads; any other text raises
\* ValueError
py_int ==
  [s \in {"10", "1", "5", "2", "0", "-1"} |->
     CASE s = "10" -> 10
       [] s = "1" -> 1
       [] s = "5" -> 5
       [] s = "2" -> 2
       [] s = "0" -> 0
       [] OTHER -> -1]

_PERIOD_SECONDS ==
  [p \in {"second", "minute", "hour", "day"} |->
     CASE p = "second" -> 1
       [] p = "minute" -> 60
       [] p = "hour" -> 3600
       [] OTHER -> 86400]

\* raise ValueError(f"Invalid rate string '{rate}'. Expected format: ...")
InvalidRate(e) ==
  [ok |-> FALSE, limit |-> 0, window |-> 0,
   msg |-> "Invalid rate string '" \o Join(e) \o "'. Expected format: 'N/second|minute|hour|day'"]

\* _parse_rate(rate): the unpacking of split("/") raises ValueError unless
\* there are two fields, int() raises ValueError, the lookup raises KeyError.
_parse_rate(e) ==
  LET parts == [i \in 1..Len(e) |-> lower(e[i])] IN
  IF Len(parts) /= 2 THEN InvalidRate(e)
  ELSE LET count_str == strip(parts[1])
           period == strip(parts[2])
       IN IF count_str \notin DOMAIN py_int THEN InvalidRate(e)
          ELSE IF period \notin DOMAIN _PERIOD_SECONDS THEN InvalidRate(e)
          ELSE [ok |-> TRUE, limit |-> py_int[count_str],
                window |-> _PERIOD_SECONDS[period], msg |-> ""]

\* The callable a decorator returns: the wrappers around the view, innermost
\* first, whether the outermost is a coroutine function, and its _rate_limit.
Wrapped(func, by, e, isCoroutine) ==
  [coroutine |-> isCoroutine, _rate_limit |-> e,
   wrappers |-> Append(func.wrappers,
                       [by |-> by, limit |-> _parse_rate(e).limit,
                        window |-> _parse_rate(e).window])]

\* rate_limit(rate)(func): _parse_rate runs when the decorator is made; the
\* wrapper is a plain function.
rate_limit(e, func) ==
  IF _parse_rate(e).ok
    THEN [ok |-> TRUE, func |-> Wrapped(func, "rate_limit", e, FALSE), msg |-> ""]
    ELSE [ok |-> FALSE, func |-> func, msg |-> _parse_rate(e).msg]

\* async_rate_limit(rate)(func): the same with an async def wrapper.
async_rate_limit(e, func) ==
  IF _parse_rate(e).ok
    THEN [ok |-> TRUE, func |-> Wrapped(func, "async_rate_limit", e, TRUE), msg |-> ""]
    ELSE [ok |-> FALSE, func |-> func, msg |-> _parse_rate(e).msg]

\* apply_global_rate_limit(func, rate)
apply_global_rate_limit(func, e) ==
  IF func._rate_limit /= NoRate
    THEN [ok |-> TRUE, func |-> func, msg |-> ""]
    ELSE rate_limit(e, func)

Decorators == {"none", "rate_limit", "async_rate_limit"}
NoError == [at |-> "nowhere", msg |-> ""]
Bare(isCoroutine) == [coroutine |-> isCoroutine, _rate_limit |-> NoRate, wrappers |-> <<>>]

VARIABLES
  now,            \* the cache's clock, in ticks
  isAsync,        \* the decorated view is a coroutine function
  cache,          \* cache entries under cache_key, per idempotency key
  locks,          \* cache entries under cache_key + ":lock"
  pc,             \* where each request is in the wrapper
  req,            \* each request's method and X-Idempotency-Key header
  lock_acquired,  \* the wrapper's local lock_acquired
  outcome,        \* what the wrapper holds or has handed to its caller
  executed,       \* history: the wrapped view was invoked by this request
  faults,         \* history: the store operations that raised for this request
  after,          \* history: the requests already finished when this one began
  stale,          \* history: the TTL of a result stored under the request's key had elapsed when it began
  due,            \* history: when the TTL of the last result stored under the key elapses (0: none stored)
  lapsed          \* history: the entries (result or lock, per key) that have expired

ivars == <<now, isAsync, cache, locks, pc, req, lock_acquired, outcome,
           executed, faults, after, stale, due, lapsed>>

VARIABLES
  rnow,        \* time.time(), in ticks
  backend,     \* _get_backend(): "memory" (InMemoryBackend) or "cache" (CacheBackend)
  redis,       \* the Django cache has ttl() and expire() (django-redis)
  limit,       \* limit of the decorator's rate
  window,      \* window of the decorator's rate, in seconds
  store,       \* InMemoryBackend._store: the timestamps of each key
  counter,     \* CacheBackend: the cache entry of each key
  rpc,         \* where each thread is in is_allowed
  rkey,        \* the bucket key of the thread's check
  tnow,        \* the thread's local now
  new_count,   \* the thread's local new_count
  alone,       \* history: no other check was in flight during the thread's check
  hist         \* history: the finished checks, in the order they finished

rvars == <<rnow, backend, redis, limit, window, store, counter, rpc, rkey, tnow,
           new_count, alone, hist>>

\* _build_cache_key for the callers of one deployment
VARIABLES
  scope,       \* scope of the decorator: "user" or "global"
  ctx,         \* each caller's ctx: the user the auth layer put there
  header,      \* each caller's X-Idempotency-Key
  func_name,   \* the operation each caller calls
  cache_key    \* the cache key the wrapper built for the caller's request

kvars == <<scope, ctx, header, func_name, cache_key>>

\* a view on its way through its decorator and AutoRouter.add_api_operation
VARIABLES
  DEFAULT,     \* settings.NINJA_BOOST["RATE_LIMIT"]["DEFAULT"]
  decorator,   \* the rate-limit decorator written on the view, if any
  rate,        \* the rate expression given to that decorator
  view_func,   \* the callable as it stands: the view under the wrappers put around it
  stage,       \* how far the view has got: defined, decorated, registered, served
  raised,      \* the error that came up, and where
  enforced     \* the limits checked on a request to the route

wvars == <<DEFAULT, decorator, rate, view_func, stage, raised, enforced>>

\* a rate-limited view, the event bus and one request to the view
VARIABLES
  gate,          \* the decorator around the view: rate_limit or async_rate_limit
  kinds,         \* what each handler function is: async def or def, and how a call of it ends
  _handlers,     \* EventBus._handlers["on_rate_limit_exceeded"]
  _wildcard,     \* EventBus._wildcard
  running_loop,  \* asyncio.get_running_loop() finds a loop in the thread of the request
  gpc,           \* "setup" while handlers are registered, "served" after the request
  verdict,       \* what backend.is_allowed returned or raised
  events,        \* the emit calls made, with their keyword arguments
  called,        \* history: the handlers emit called, in order
  logged,        \* history: the handlers whose exception emit logged
  tasks,         \* the coroutines emit scheduled on the loop, not yet run
  invoked,       \* the wrapped view was invoked
  response       \* what the caller of the wrapper received

gvars == <<gate, kinds, _handlers, _wildcard, running_loop, gpc, verdict, events,
           called, logged, tasks, invoked, response>>

\* a view under auto_paginate and one request to it
VARIABLES
  GET,           \* request.GET: the page and size texts, None when missing
  result,        \* what the view returns
  paginated      \* what the wrapper returned

pvars == <<GET, result, paginated>>

vars == <<ivars, rvars, kvars, wvars, gvars, pvars>>

Behaviours == {"returns", "Exception", "BaseException"}
HandlerNames == {"h1", "h2"}
HandlerKinds == [co : BOOLEAN, does : Behaviours]
NoVerdict == [res |-> "none", remaining |-> 0, retry_after |-> 0]
NotServed == [kind |-> "nothing"]

\* No request is at the rate-limited view and no handler is registered.
GateAtRest ==
  /\ gate = "rate_limit"
  /\ kinds = [h \in HandlerNames |-> [co |-> FALSE, does |-> "returns"]]
  /\ _handlers = <<>> /\ _wildcard = <<>>
  /\ running_loop = FALSE /\ gpc = "setup" /\ verdict = NoVerdict
  /\ events = <<>> /\ called = <<>> /\ logged = <<>> /\ tasks = <<>>
  /\ invoked = FALSE /\ response = "none"

\* No request is at the paginated view.
PageAtRest ==
  /\ GET = [page |-> PyNone, size |-> PyNone]
  /\ result = [type |-> "NoneType", rows |-> <<>>]
  /\ paginated = NotServed

\* No cache key is being built.
KeyAtRest ==
  /\ scope = "user"
  /\ ctx = [c \in Callers |-> NoUser]
  /\ header = [c \in Callers |-> "k"]
  /\ func_name = [c \in Callers |-> "api.pay"]
  /\ cache_key = [c \in Callers |-> NotBuilt]

\* No view is being registered.
WireAtRest ==
  /\ DEFAULT = NoRate /\ decorator = "none" /\ rate = NoRate
  /\ view_func = Bare(FALSE)
  /\ stage = "defined" /\ raised = NoError /\ enforced = <<>>

\* No request is at the idempotent view.
IdemAtRest ==
  /\ now = 0 /\ isAsync = FALSE
  /\ cache = [k \in IdemKeys |-> NoEntry]
  /\ locks = [k \in IdemKeys |-> NoEntry]
  /\ pc = [c \in Calls |-> "idle"]
  /\ req = [c \in Calls |-> [method |-> "POST", ikey |-> NoKey]]
  /\ lock_acquired = [c \in Calls |-> FALSE]
  /\ outcome = [c \in Calls |-> [kind |-> "none", val |-> None]]
  /\ executed = [c \in Calls |-> FALSE]
  /\ faults = [c \in Calls |-> {}]
  /\ after = [c \in Calls |-> {}]
  /\ stale = [c \in Calls |-> FALSE]
  /\ due = [k \in IdemKeys |-> 0]
  /\ lapsed = {}

\* No check is at the rate limiter.
RLAtRest ==
  /\ rnow = 0 /\ backend = "memory" /\ redis = FALSE /\ limit = 1 /\ window = 1
  /\ store = [k \in RLKeys |-> <<>>]
  /\ counter = [k \in RLKeys |-> NoCounter]
  /\ rpc = [t \in Threads |-> "idle"]
  /\ rkey = [t \in Threads |-> "ip:1"]
  /\ tnow = [t \in Threads |-> 0]
  /\ new_count = [t \in Threads |-> 0]
  /\ alone = [t \in Threads |-> TRUE]
  /\ hist = <<>>

\* cache.get(key): an expired entry reads as None
Present(e) == e /= NoEntry /\ e.exp > now
CacheGet(entries, k) == IF Present(entries[k]) THEN entries[k].val ELSE None

guarded(c) == req[c].method \in _methods /\ req[c].ikey /= NoKey

InitIdem ==
  /\ now = 0
  /\ isAsync \in BOOLEAN
  /\ cache = [k \in IdemKeys |-> NoEntry]
  /\ locks = [k \in IdemKeys |-> NoEntry]
  /\ pc = [c \in Calls |-> "idle"]
  /\ req = [c \in Calls |-> [method |-> "POST", ikey |-> NoKey]]
  /\ lock_acquired = [c \in Calls |-> FALSE]
  /\ outcome = [c \in Calls |-> [kind |-> "none", val |-> None]]
  /\ executed = [c \in Calls |-> FALSE]
  /\ faults = [c \in Calls |-> {}]
  /\ after = [c \in Calls |-> {}]
  /\ stale = [c \in Calls |-> FALSE]
  /\ due = [k \in IdemKeys |-> 0]
  /\ lapsed = {}
  /\ KeyAtRest /\ WireAtRest /\ GateAtRest /\ PageAtRest
  \* the rate limiter at rest
  /\ rnow = 0 /\ backend = "memory" /\ redis = FALSE /\ limit = 1 /\ window = 1
  /\ store = [k \in RLKeys |-> <<>>]
  /\ counter = [k \in RLKeys |-> NoCounter]
  /\ rpc = [t \in Threads |-> "idle"]
  /\ rkey = [t \in Threads |-> "ip:1"]
  /\ tnow = [t \in Threads |-> 0]
  /\ new_count = [t \in Threads |-> 0]
  /\ alone = [t \in Threads |-> TRUE]
  /\ hist = <<>>

\* Start without the header test: a request without the header is coordinated
\* like one with a key.
StartWithoutHeaderTest(c) ==
  /\ pc[c] = "idle"
  /\ UNCHANGED <<rvars, kvars, wvars, gvars, pvars>>
  /\ \E m \in Methods, k \in IdemKeys \cup {NoKey} :
       /\ req' = [req EXCEPT ![c] = [method |-> m, ikey |-> k]]
       /\ IF m \in _methods
            THEN /\ pc' = [pc EXCEPT ![c] = "get"]
                 /\ executed' = executed
            ELSE /\ pc' = [pc EXCEPT ![c] = "func"]
                 /\ executed' = [executed EXCEPT ![c] = TRUE]
       /\ stale' = [stale EXCEPT ![c] = k /= NoKey /\ due[k] /= 0 /\ due[k] <= now]
  /\ after' = [after EXCEPT ![c] = {d \in Calls : pc[d] = "done"}]
  /\ UNCHANGED <<now, isAsync, cache, locks, lock_acquired, outcome, faults, due, lapsed>>

\* A request arrives: the method test and the header test of the wrapper.
Start(c) ==
  /\ pc[c] = "idle"
  /\ UNCHANGED <<rvars, kvars, wvars, gvars, pvars>>
  /\ \E m \in Methods, k \in IdemKeys \cup {NoKey} :
       /\ req' = [req EXCEPT ![c] = [method |-> m, ikey |-> k]]
       /\ IF m \in _methods /\ k /= NoKey
            THEN /\ pc' = [pc EXCEPT ![c] = "get"]
                 /\ executed' = executed
            ELSE /\ pc' = [pc EXCEPT ![c] = "func"]
                 /\ executed' = [executed EXCEPT ![c] = TRUE]
       /\ stale' = [stale EXCEPT ![c] = k /= NoKey /\ due[k] /= 0 /\ due[k] <= now]
  /\ after' = [after EXCEPT ![c] = {d \in Calls : pc[d] = "done"}]
  /\ UNCHANGED <<now, isAsync, cache, locks, lock_acquired, outcome, faults, due, lapsed>>

\* Lookup without the replay branch: every lookup is a miss.
LookupNeverReplays(c) ==
  /\ pc[c] = "get"
  /\ UNCHANGED <<rvars, kvars, wvars, gvars, pvars>>
  /\ pc' = [pc EXCEPT ![c] = "add"]
  /\ UNCHANGED <<now, isAsync, cache, locks, req, lock_acquired, outcome, executed,
                 faults, after, stale, due, lapsed>>

\* Lookup that lets an error of cache.get reach the caller.
LookupRaises(c) ==
  /\ pc[c] = "get"
  /\ UNCHANGED <<rvars, kvars, wvars, gvars, pvars>>
  /\ \/ /\ faults' = [faults EXCEPT ![c] = @ \cup {"get"}]
        /\ outcome' = [outcome EXCEPT ![c] = [kind |-> "store_error", val |-> None]]
        /\ pc' = [pc EXCEPT ![c] = "done"]
     \/ LET stored == CacheGet(cache, req[c].ikey) IN
        /\ IF stored /= None /\ stored /= _LOCK_SENTINEL /\ json_loads(stored) /= JsonError
             THEN /\ outcome' = [outcome EXCEPT ![c] =
                                   [kind |-> "replayed", val |-> json_loads(stored)]]
                  /\ pc' = [pc EXCEPT ![c] = "done"]
             ELSE /\ pc' = [pc EXCEPT ![c] = "add"]
                  /\ UNCHANGED outcome
        /\ UNCHANGED faults
  /\ UNCHANGED <<now, isAsync, cache, locks, req, lock_acquired, executed, after, stale, due, lapsed>>

\* "Check for existing result": cache.get and the replay branch.
Lookup(c) ==
  /\ pc[c] = "get"
  /\ UNCHANGED <<rvars, kvars, wvars, gvars, pvars>>
  /\ \/ \* cache.get raises: logged, treated as a miss
        /\ faults' = [faults EXCEPT ![c] = @ \cup {"get"}]
        /\ pc' = [pc EXCEPT ![c] = "add"]
        /\ UNCHANGED outcome
     \/ LET stored == CacheGet(cache, req[c].ikey) IN
        /\ IF stored /= None /\ stored /= _LOCK_SENTINEL /\ json_loads(stored) /= JsonError
             THEN /\ outcome' = [outcome EXCEPT ![c] =
                                   [kind |-> "replayed", val |-> json_loads(stored)]]
                  /\ pc' = [pc EXCEPT ![c] = "done"]
             ELSE /\ pc' = [pc EXCEPT ![c] = "add"]
                  /\ UNCHANGED outcome
        /\ UNCHANGED faults
  /\ UNCHANGED <<now, isAsync, cache, locks, req, lock_acquired, executed, after, stale, due, lapsed>>

\* "Check for concurrent execution lock": cache.add and its except branches.
LockAdd(c) ==
  /\ pc[c] = "add"
  /\ UNCHANGED <<rvars, kvars, wvars, gvars, pvars>>
  /\ \/ \* cache.add raises: "proceeding without lock"
        /\ faults' = [faults EXCEPT ![c] = @ \cup {"add"}]
        /\ lock_acquired' = [lock_acquired EXCEPT ![c] = FALSE]
        /\ pc' = [pc EXCEPT ![c] = "func"]
        /\ executed' = [executed EXCEPT ![c] = TRUE]
        /\ UNCHANGED <<locks, outcome>>
     \/ \* cache.add created the entry
        /\ ~Present(locks[req[c].ikey])
        /\ locks' = [locks EXCEPT ![req[c].ikey] =
                       [val |-> _LOCK_SENTINEL, exp |-> now + LockTtl, owner |-> c]]
        /\ lock_acquired' = [lock_acquired EXCEPT ![c] = TRUE]
        /\ pc' = [pc EXCEPT ![c] = "func"]
        /\ executed' = [executed EXCEPT ![c] = TRUE]
        /\ UNCHANGED <<outcome, faults>>
     \/ \* cache.add found the entry: HttpError(409)
        /\ Present(locks[req[c].ikey])
        /\ outcome' = [outcome EXCEPT ![c] = [kind |-> "conflict", val |-> None]]
        /\ pc' = [pc EXCEPT ![c] = "done"]
        /\ UNCHANGED <<locks, lock_acquired, executed, faults>>
  /\ UNCHANGED <<now, isAsync, cache, req, after, stale, due, lapsed>>

\* The wrapped view ends: it returns, raises, or (a coroutine) is cancelled.
FuncEnds(c, kind, v) ==
  /\ pc[c] = "func"
  /\ UNCHANGED <<rvars, kvars, wvars, gvars, pvars>>
  /\ outcome' = [outcome EXCEPT ![c] = [kind |-> kind, val |-> v]]
  /\ pc' = [pc EXCEPT ![c] = IF guarded(c) THEN "finally" ELSE "done"]
  /\ UNCHANGED <<now, isAsync, cache, locks, req, lock_acquired, executed, faults,
                 after, stale, due, lapsed>>

FuncReturn(c) == \E r \in Results : FuncEnds(c, "returned", r)
FuncRaise(c) == FuncEnds(c, "raised", None)
FuncCancel(c) == isAsync /\ FuncEnds(c, "cancelled", None)

\* Finally with the delete moved out of the finally block: the lock is released
\* only when the view returned.
FinallyOnReturnOnly(c) ==
  /\ pc[c] = "finally"
  /\ UNCHANGED <<rvars, kvars, wvars, gvars, pvars>>
  /\ IF lock_acquired[c] /\ outcome[c].kind = "returned"
       THEN locks' = [locks EXCEPT ![req[c].ikey] = NoEntry]
       ELSE UNCHANGED locks
  /\ pc' = [pc EXCEPT ![c] = IF outcome[c].kind = "returned" THEN "set" ELSE "done"]
  /\ UNCHANGED <<now, isAsync, cache, req, lock_acquired, outcome, executed, faults,
                 after, stale, due, lapsed>>

\* Finally that falls through to "Store the result" whatever the view did.
FinallyThenAlwaysStore(c) ==
  /\ pc[c] = "finally"
  /\ UNCHANGED <<rvars, kvars, wvars, gvars, pvars>>
  /\ IF lock_acquired[c]
       THEN locks' = [locks EXCEPT ![req[c].ikey] = NoEntry]
       ELSE UNCHANGED locks
  /\ pc' = [pc EXCEPT ![c] = "set"]
  /\ UNCHANGED <<now, isAsync, cache, req, lock_acquired, outcome, executed, faults,
                 after, stale, due, lapsed>>

\* finally: if lock_acquired: cache.delete(lock_key), errors swallowed.
Finally(c) ==
  /\ pc[c] = "finally"
  /\ UNCHANGED <<rvars, kvars, wvars, gvars, pvars>>
  /\ \/ /\ lock_acquired[c]
        /\ locks' = [locks EXCEPT ![req[c].ikey] = NoEntry]
        /\ UNCHANGED faults
     \/ /\ lock_acquired[c]
        /\ faults' = [faults EXCEPT ![c] = @ \cup {"delete"}]
        /\ UNCHANGED locks
     \/ /\ ~lock_acquired[c]
        /\ UNCHANGED <<locks, faults>>
  /\ pc' = [pc EXCEPT ![c] = IF outcome[c].kind = "returned" THEN "set" ELSE "done"]
  /\ UNCHANGED <<now, isAsync, cache, req, lock_acquired, outcome, executed, after, stale, due, lapsed>>

\* "Store the result" with a timeout one tick longer than resolved_ttl.
SetResultOutlivesTtl(c) ==
  /\ pc[c] = "set"
  /\ UNCHANGED <<rvars, kvars, wvars, gvars, pvars>>
  /\ \/ /\ json_dumps(outcome[c].val) /= JsonError
        /\ cache' = [cache EXCEPT ![req[c].ikey] =
                       [val |-> json_dumps(outcome[c].val), exp |-> now + ResultTtl + 1,
                        owner |-> c]]
        /\ due' = [due EXCEPT ![req[c].ikey] = now + ResultTtl]
        /\ UNCHANGED faults
     \/ /\ json_dumps(outcome[c].val) = JsonError
        /\ faults' = [faults EXCEPT ![c] = @ \cup {"dumps"}]
        /\ UNCHANGED <<cache, due>>
     \/ /\ json_dumps(outcome[c].val) /= JsonError
        /\ faults' = [faults EXCEPT ![c] = @ \cup {"set"}]
        /\ UNCHANGED <<cache, due>>
  /\ pc' = [pc EXCEPT ![c] = "done"]
  /\ UNCHANGED <<now, isAsync, locks, req, lock_acquired, outcome, executed, after, stale, lapsed>>

\* "Store the result" without its try/except: an error of json.dumps or of
\* cache.set reaches the caller in place of the result.
SetResultRaises(c) ==
  /\ pc[c] = "set"
  /\ UNCHANGED <<rvars, kvars, wvars, gvars, pvars>>
  /\ \/ /\ json_dumps(outcome[c].val) /= JsonError
        /\ cache' = [cache EXCEPT ![req[c].ikey] =
                       [val |-> json_dumps(outcome[c].val), exp |-> now + ResultTtl,
                        owner |-> c]]
        /\ due' = [due EXCEPT ![req[c].ikey] = now + ResultTtl]
        /\ UNCHANGED <<faults, outcome>>
     \/ /\ json_dumps(outcome[c].val) = JsonError
        /\ faults' = [faults EXCEPT ![c] = @ \cup {"dumps"}]
        /\ outcome' = [outcome EXCEPT ![c] = [kind |-> "raised", val |-> None]]
        /\ UNCHANGED <<cache, due>>
     \/ /\ json_dumps(outcome[c].val) /= JsonError
        /\ faults' = [faults EXCEPT ![c] = @ \cup {"set"}]
        /\ outcome' = [outcome EXCEPT ![c] = [kind |-> "raised", val |-> None]]
        /\ UNCHANGED <<cache, due>>
  /\ pc' = [pc EXCEPT ![c] = "done"]
  /\ UNCHANGED <<now, isAsync, locks, req, lock_acquired, executed, after, stale, lapsed>>

\* "Store the result": cache.set(cache_key, json.dumps(result, default=str), ttl)
SetResult(c) ==
  /\ pc[c] = "set"
  /\ UNCHANGED <<rvars, kvars, wvars, gvars, pvars>>
  /\ \/ /\ json_dumps(outcome[c].val) /= JsonError
        /\ cache' = [cache EXCEPT ![req[c].ikey] =
                       [val |-> json_dumps(outcome[c].val), exp |-> now + ResultTtl,
                        owner |-> c]]
        /\ due' = [due EXCEPT ![req[c].ikey] = now + ResultTtl]
        /\ UNCHANGED faults
     \/ \* json.dumps raises: logged
        /\ json_dumps(outcome[c].val) = JsonError
        /\ faults' = [faults EXCEPT ![c] = @ \cup {"dumps"}]
        /\ UNCHANGED <<cache, due>>
     \/ \* cache.set raises: logged
        /\ json_dumps(outcome[c].val) /= JsonError
        /\ faults' = [faults EXCEPT ![c] = @ \cup {"set"}]
        /\ UNCHANGED <<cache, due>>
  /\ pc' = [pc EXCEPT ![c] = "done"]
  /\ UNCHANGED <<now, isAsync, locks, req, lock_acquired, outcome, executed, after, stale, lapsed>>

\* Time passes; the cache drops the entries whose timeout has passed.
Tick ==
  /\ now < MaxTime
  /\ UNCHANGED <<rvars, kvars, wvars, gvars, pvars>>
  /\ now' = now + 1
  /\ cache' = [k \in IdemKeys |->
                 IF cache[k] /= NoEntry /\ cache[k].exp <= now + 1 THEN NoEntry ELSE cache[k]]
  /\ locks' = [k \in IdemKeys |->
                 IF locks[k] /= NoEntry /\ locks[k].exp <= now + 1 THEN NoEntry ELSE locks[k]]
  /\ lapsed' = lapsed
       \cup {<<"result", k>> : k \in {j \in IdemKeys : cache[j] /= NoEntry /\ cache[j].exp <= now + 1}}
       \cup {<<"lock", k>> : k \in {j \in IdemKeys : locks[j] /= NoEntry /\ locks[j].exp <= now + 1}}
  /\ UNCHANGED <<isAsync, pc, req, lock_acquired, outcome, executed, faults, after, stale, due>>

NextIdem ==
  \/ \E c \in Calls : Start(c)
  \/ \E c \in Calls : Lookup(c)
  \/ \E c \in Calls : LockAdd(c)
  \/ \E c \in Calls : FuncReturn(c)
  \/ \E c \in Calls : FuncRaise(c)
  \/ \E c \in Calls : FuncCancel(c)
  \/ \E c \in Calls : Finally(c)
  \/ \E c \in Calls : SetResult(c)
  \/ Tick


\* ============================================================ rate limiting
InitRL ==
  /\ rnow = 0
  /\ backend \in {"memory", "cache"}
  /\ redis \in BOOLEAN
  /\ (backend = "memory" => redis = FALSE)
  /\ limit \in 0..MaxLimit
  /\ window \in 1..MaxWindow
  /\ store = [k \in RLKeys |-> <<>>]
  /\ counter = [k \in RLKeys |-> NoCounter]
  /\ rpc = [t \in Threads |-> "idle"]
  /\ rkey = [t \in Threads |-> "ip:1"]
  /\ tnow = [t \in Threads |-> 0]
  /\ new_count = [t \in Threads |-> 0]
  /\ alone = [t \in Threads |-> TRUE]
  /\ hist = <<>>
  \* the idempotent view at rest
  /\ now = 0 /\ isAsync = FALSE
  /\ cache = [k \in IdemKeys |-> NoEntry]
  /\ locks = [k \in IdemKeys |-> NoEntry]
  /\ pc = [c \in Calls |-> "idle"]
  /\ req = [c \in Calls |-> [method |-> "POST", ikey |-> NoKey]]
  /\ lock_acquired = [c \in Calls |-> FALSE]
  /\ outcome = [c \in Calls |-> [kind |-> "none", val |-> None]]
  /\ executed = [c \in Calls |-> FALSE]
  /\ faults = [c \in Calls |-> {}]
  /\ after = [c \in Calls |-> {}]
  /\ stale = [c \in Calls |-> FALSE]
  /\ due = [k \in IdemKeys |-> 0]
  /\ lapsed = {}
  /\ KeyAtRest /\ WireAtRest /\ GateAtRest /\ PageAtRest

InFlight == {t \in Threads : rpc[t] /= "idle"}
MayBegin(t) == rpc[t] = "idle" /\ Len(hist) + Cardinality(InFlight) < MaxChecks
\* the history flag of the checks that run side by side
AloneAtBegin(t) == [u \in Threads |-> IF u = t THEN InFlight = {} ELSE alone[u] /\ rpc[u] = "idle"]

\* rate_limit.wrapper after backend.is_allowed: the view runs if the check
\* allowed it, HttpError(429) if it denied it; an exception of the backend is
\* not caught and reaches the caller.
WrapperOutcome(res) ==
  CASE res = "allowed" -> "view"
    [] res = "denied" -> "429"
    [] OTHER -> "raised"

Finished(t, k, at, res, remaining, retry, isAlone) ==
  Append(hist, [key |-> k, at |-> at, end |-> rnow, res |-> res, remaining |-> remaining,
                retry |-> retry, alone |-> isAlone, http |-> WrapperOutcome(res)])

\* The filter with > read as >=: a timestamp exactly window old is kept.
SlideInclusive(ts, cutoff) == SelectSeq(ts, LAMBDA x : x >= cutoff)

\* timestamps = [t for t in timestamps if t > cutoff]
Slide(ts, cutoff) == SelectSeq(ts, LAMBDA x : x > cutoff)

\* The body of "with self._lock" with >= read as >.
InMemory_is_allowed_OffByOne(ts0, lim, win, tn) ==
  LET ts == Slide(ts0, tn - win * TicksPerSec) IN
  IF Len(ts) > lim
    THEN [res |-> "denied", remaining |-> 0,
          retry |-> ((win * TicksPerSec - (tn - ts[1])) \div TicksPerSec) + 1, ts |-> ts]
    ELSE [res |-> "allowed", remaining |-> lim - (Len(ts) + 1), retry |-> 0,
          ts |-> Append(ts, tn)]

\* The body of "with self._lock" with retry_after computed without its "+ 1".
InMemory_is_allowed_NoPlusOne(ts0, lim, win, tn) ==
  LET ts == Slide(ts0, tn - win * TicksPerSec) IN
  IF Len(ts) >= lim
    THEN IF Len(ts) = 0
           THEN [res |-> "index_error", remaining |-> 0, retry |-> 0, ts |-> ts0]
           ELSE [res |-> "denied", remaining |-> 0,
                 retry |-> (win * TicksPerSec - (tn - ts[1])) \div TicksPerSec,
                 ts |-> ts]
    ELSE [res |-> "allowed", remaining |-> lim - (Len(ts) + 1), retry |-> 0,
          ts |-> Append(ts, tn)]

\* The body of "with self._lock" storing the list it read with now appended,
\* not the pruned one.
InMemory_is_allowed_StoresUnpruned(ts0, lim, win, tn) ==
  LET ts == Slide(ts0, tn - win * TicksPerSec) IN
  IF Len(ts) >= lim
    THEN IF Len(ts) = 0
           THEN [res |-> "index_error", remaining |-> 0, retry |-> 0, ts |-> ts0]
           ELSE [res |-> "denied", remaining |-> 0,
                 retry |-> ((win * TicksPerSec - (tn - ts[1])) \div TicksPerSec) + 1,
                 ts |-> ts0]
    ELSE [res |-> "allowed", remaining |-> lim - (Len(ts) + 1), retry |-> 0,
          ts |-> Append(ts0, tn)]

\* The body of "with self._lock" appending now before the test, so that a
\* denied check leaves its timestamp in the window.
InMemory_is_allowed_DeniedAppends(ts0, lim, win, tn) ==
  LET ts == Slide(ts0, tn - win * TicksPerSec) IN
  IF Len(ts) >= lim
    THEN IF Len(ts) = 0
           THEN [res |-> "index_error", remaining |-> 0, retry |-> 0, ts |-> ts0]
           ELSE [res |-> "denied", remaining |-> 0,
                 retry |-> ((win * TicksPerSec - (tn - ts[1])) \div TicksPerSec) + 1,
                 ts |-> Append(ts, tn)]
    ELSE [res |-> "allowed", remaining |-> lim - (Len(ts) + 1), retry |-> 0,
          ts |-> Append(ts, tn)]

\* InMemoryBackend.is_allowed, the body of "with self._lock": the decision and
\* the timestamps stored for the key. timestamps[0] of an empty list raises
\* IndexError before anything is stored.
InMemory_is_allowed(ts0, lim, win, tn) ==
  LET ts == Slide(ts0, tn - win * TicksPerSec) IN
  IF Len(ts) >= lim
    THEN IF Len(ts) = 0
           THEN [res |-> "index_error", remaining |-> 0, retry |-> 0, ts |-> ts0]
           ELSE [res |-> "denied", remaining |-> 0,
                 retry |-> ((win * TicksPerSec - (tn - ts[1])) \div TicksPerSec) + 1,
                 ts |-> ts]
    ELSE [res |-> "allowed", remaining |-> lim - (Len(ts) + 1), retry |-> 0,
          ts |-> Append(ts, tn)]

\* InMemoryBackend.is_allowed: now = time.time(), before the lock is taken.
MemBegin(t) ==
  /\ backend = "memory"
  /\ UNCHANGED <<ivars, kvars, wvars, gvars, pvars>>
  /\ MayBegin(t)
  /\ \E k \in RLKeys : rkey' = [rkey EXCEPT ![t] = k]
  /\ tnow' = [tnow EXCEPT ![t] = rnow]
  /\ rpc' = [rpc EXCEPT ![t] = "lock"]
  /\ alone' = AloneAtBegin(t)
  /\ UNCHANGED <<rnow, backend, redis, limit, window, store, counter, new_count, hist>>

\* InMemoryBackend.is_allowed: the locked section, then the wrapper.
MemCheck(t) ==
  /\ rpc[t] = "lock"
  /\ UNCHANGED <<ivars, kvars, wvars, gvars, pvars>>
  /\ LET d == InMemory_is_allowed(store[rkey[t]], limit, window, tnow[t]) IN
       /\ store' = [store EXCEPT ![rkey[t]] = d.ts]
       /\ hist' = Finished(t, rkey[t], tnow[t], d.res, d.remaining, d.retry, alone[t])
  /\ rpc' = [rpc EXCEPT ![t] = "idle"]
  /\ UNCHANGED <<rnow, backend, redis, limit, window, counter, rkey, tnow, new_count, alone>>

\* cache.get(cache_key, 0)
Count(k) == IF counter[k] /= NoCounter /\ counter[k].exp > rnow THEN counter[k].count ELSE 0
Live(k) == counter[k] /= NoCounter /\ counter[k].exp > rnow

\* CacheBackend.is_allowed: count = cache.get(cache_key, 0) and the test
\* count >= limit; without cache.ttl the denial is computed from window.
CacheLookup(t) ==
  /\ backend = "cache"
  /\ UNCHANGED <<ivars, kvars, wvars, gvars, pvars>>
  /\ MayBegin(t)
  /\ \E k \in RLKeys :
       /\ rkey' = [rkey EXCEPT ![t] = k]
       /\ \/ \* cache.get raises
             /\ hist' = Finished(t, k, rnow, "store_error", 0, 0, InFlight = {})
             /\ rpc' = rpc
          \/ /\ Count(k) >= limit /\ ~redis
             /\ hist' = Finished(t, k, rnow, "denied", 0, window + 1, InFlight = {})
             /\ rpc' = rpc
          \/ /\ Count(k) >= limit /\ redis
             /\ hist' = hist
             /\ rpc' = [rpc EXCEPT ![t] = "ttl"]
          \/ /\ Count(k) < limit
             /\ hist' = hist
             /\ rpc' = [rpc EXCEPT ![t] = "incr"]
  /\ tnow' = [tnow EXCEPT ![t] = rnow]
  /\ alone' = AloneAtBegin(t)
  /\ UNCHANGED <<rnow, backend, redis, limit, window, store, counter, new_count>>

\* ttl = cache.ttl(cache_key); return False, 0, int(ttl) + 1. The seconds left
\* of the entry, rounded down or up by the cache; 0 when the key is gone.
CacheTtl(t) ==
  /\ rpc[t] = "ttl"
  /\ UNCHANGED <<ivars, kvars, wvars, gvars, pvars>>
  /\ \/ hist' = Finished(t, rkey[t], tnow[t], "store_error", 0, 0, alone[t])
     \/ /\ ~Live(rkey[t])
        /\ hist' = Finished(t, rkey[t], tnow[t], "denied", 0, 0 + 1, alone[t])
     \/ /\ Live(rkey[t])
        /\ \E ttl \in {(counter[rkey[t]].exp - rnow) \div TicksPerSec,
                       (counter[rkey[t]].exp - rnow + TicksPerSec - 1) \div TicksPerSec} :
             hist' = Finished(t, rkey[t], tnow[t], "denied", 0, ttl + 1, alone[t])
  /\ rpc' = [rpc EXCEPT ![t] = "idle"]
  /\ UNCHANGED <<rnow, backend, redis, limit, window, store, counter, rkey, tnow,
                 new_count, alone>>

\* The end of CacheBackend.is_allowed once new_count is known: cache.expire
\* is called when new_count == 1 and the cache has it, then
\* return True, max(0, limit - new_count), 0.
AfterCount(t, n) ==
  IF n = 1 /\ redis
    THEN /\ rpc' = [rpc EXCEPT ![t] = "expire"]
         /\ hist' = hist
    ELSE /\ rpc' = [rpc EXCEPT ![t] = "idle"]
         /\ hist' = Finished(t, rkey[t], tnow[t], "allowed",
                             IF limit - n > 0 THEN limit - n ELSE 0, 0, alone[t])

\* new_count = cache.incr(cache_key); ValueError when the key is missing.
CacheIncr(t) ==
  /\ rpc[t] = "incr"
  /\ UNCHANGED <<ivars, kvars, wvars, gvars, pvars>>
  /\ \/ \* cache.incr raises an error of the store
        /\ hist' = Finished(t, rkey[t], tnow[t], "store_error", 0, 0, alone[t])
        /\ rpc' = [rpc EXCEPT ![t] = "idle"]
        /\ UNCHANGED <<counter, new_count>>
     \/ /\ Live(rkey[t])
        /\ counter' = [counter EXCEPT ![rkey[t]].count = @ + 1]
        /\ new_count' = [new_count EXCEPT ![t] = counter[rkey[t]].count + 1]
        /\ AfterCount(t, counter[rkey[t]].count + 1)
     \/ \* except ValueError
        /\ ~Live(rkey[t])
        /\ rpc' = [rpc EXCEPT ![t] = "set"]
        /\ UNCHANGED <<counter, new_count, hist>>
  /\ UNCHANGED <<rnow, backend, redis, limit, window, store, rkey, tnow, alone>>

\* cache.set(cache_key, 1, timeout=window); new_count = 1
CacheSet(t) ==
  /\ rpc[t] = "set"
  /\ UNCHANGED <<ivars, kvars, wvars, gvars, pvars>>
  /\ \/ /\ hist' = Finished(t, rkey[t], tnow[t], "store_error", 0, 0, alone[t])
        /\ rpc' = [rpc EXCEPT ![t] = "idle"]
        /\ UNCHANGED <<counter, new_count>>
     \/ /\ counter' = [counter EXCEPT ![rkey[t]] =
                         [count |-> 1, exp |-> rnow + window * TicksPerSec]]
        /\ new_count' = [new_count EXCEPT ![t] = 1]
        /\ AfterCount(t, 1)
  /\ UNCHANGED <<rnow, backend, redis, limit, window, store, rkey, tnow, alone>>

\* cache.expire(cache_key, window), then the return.
CacheExpire(t) ==
  /\ rpc[t] = "expire"
  /\ UNCHANGED <<ivars, kvars, wvars, gvars, pvars>>
  /\ \/ /\ hist' = Finished(t, rkey[t], tnow[t], "store_error", 0, 0, alone[t])
        /\ UNCHANGED counter
     \/ /\ counter' = IF Live(rkey[t])
                        THEN [counter EXCEPT ![rkey[t]].exp = rnow + window * TicksPerSec]
                        ELSE counter
        /\ hist' = Finished(t, rkey[t], tnow[t], "allowed",
                            IF limit - new_count[t] > 0 THEN limit - new_count[t] ELSE 0,
                            0, alone[t])
  /\ rpc' = [rpc EXCEPT ![t] = "idle"]
  /\ UNCHANGED <<rnow, backend, redis, limit, window, store, rkey, tnow, new_count, alone>>

\* Time passes; the cache drops the counters whose timeout has passed.
Elapse(until) ==
  /\ rnow < until
  /\ UNCHANGED <<ivars, kvars, wvars, gvars, pvars>>
  /\ rnow' = rnow + 1
  /\ counter' = [k \in RLKeys |->
                   IF counter[k] /= NoCounter /\ counter[k].exp <= rnow + 1
                     THEN NoCounter ELSE counter[k]]
  /\ UNCHANGED <<backend, redis, limit, window, store, rpc, rkey, tnow, new_count,
                 alone, hist>>

RTick == Elapse(MaxRTime)

NextRL ==
  \/ \E t \in Threads : MemBegin(t)
  \/ \E t \in Threads : MemCheck(t)
  \/ \E t \in Threads : CacheLookup(t)
  \/ \E t \in Threads : CacheTtl(t)
  \/ \E t \in Threads : CacheIncr(t)
  \/ \E t \in Threads : CacheSet(t)
  \/ \E t \in Threads : CacheExpire(t)
  \/ RTick

\* The checks of one client that makes them one after the other, over a longer
\* time.
RTickSeq == Elapse(MaxSeqTime)

NextRLSeq ==
  \/ MemBegin(SeqThread)
  \/ MemCheck(SeqThread)
  \/ CacheLookup(SeqThread)
  \/ CacheTtl(SeqThread)
  \/ CacheIncr(SeqThread)
  \/ CacheSet(SeqThread)
  \/ CacheExpire(SeqThread)
  \/ RTickSeq

\* ============================================================ key building
InitKey ==
  /\ scope \in Scopes
  /\ ctx \in [Callers -> CtxUsers]
  /\ header \in [Callers -> KeyStrings]
  /\ func_name \in [Callers -> FuncNames]
  /\ cache_key = [c \in Callers |-> NotBuilt]
  /\ IdemAtRest /\ RLAtRest /\ WireAtRest /\ GateAtRest /\ PageAtRest

\* The wrapper, for a request that carries a key: user_id =
\* _extract_user_id(ctx); cache_key = _build_cache_key(ikey, user_id, scope,
\* func_name).
BuildKey(c) ==
  /\ cache_key[c] = NotBuilt
  /\ LET user_id == _extract_user_id(ctx[c]) IN
       cache_key' = [cache_key EXCEPT ![c] =
                       _build_cache_key(header[c], user_id, scope, func_name[c])]
  /\ UNCHANGED <<scope, ctx, header, func_name>>
  /\ UNCHANGED <<ivars, rvars, wvars, gvars, pvars>>

NextKey == \E c \in Callers : BuildKey(c)

\* ======================================================= wiring of a route
InitWire ==
  /\ DEFAULT \in RateExprs \cup {NoRate}
  /\ decorator \in Decorators
  /\ rate \in (IF decorator = "none" THEN {NoRate} ELSE RateExprs)
  \* rate_limit is written on a def, async_rate_limit on an async def
  /\ view_func \in {Bare(TRUE), Bare(FALSE)}
  /\ (decorator = "rate_limit" => ~view_func.coroutine)
  /\ (decorator = "async_rate_limit" => view_func.coroutine)
  /\ stage = "defined" /\ raised = NoError /\ enforced = <<>>
  /\ IdemAtRest /\ RLAtRest /\ KeyAtRest /\ GateAtRest /\ PageAtRest

\* @rate_limit(rate) or @async_rate_limit(rate) on the view, run when the
\* module of the view is imported. A ValueError of _parse_rate ends the import.
Decorate ==
  /\ stage = "defined" /\ decorator /= "none"
  /\ LET d == IF decorator = "rate_limit" THEN rate_limit(rate, view_func)
              ELSE async_rate_limit(rate, view_func)
     IN IF d.ok
          THEN /\ view_func' = d.func
               /\ stage' = "decorated"
               /\ UNCHANGED raised
          ELSE /\ stage' = "failed"
               /\ raised' = [at |-> "decoration", msg |-> d.msg]
               /\ UNCHANGED view_func
  /\ UNCHANGED <<DEFAULT, decorator, rate, enforced>>
  /\ UNCHANGED <<ivars, rvars, kvars, gvars, pvars>>

\* AutoRouter.add_api_operation, "Global rate limit": the wiring is inside
\* try ... except Exception, which logs "Global rate limit wiring skipped" and
\* registers the view as it was.
add_api_operation ==
  /\ stage = (IF decorator = "none" THEN "defined" ELSE "decorated")
  /\ LET is_async_view == view_func.coroutine
         global_rate == DEFAULT
         w == IF is_async_view THEN async_rate_limit(global_rate, view_func)
              ELSE apply_global_rate_limit(view_func, global_rate)
     IN view_func' = IF global_rate /= NoRate /\ w.ok THEN w.func ELSE view_func
  /\ stage' = "registered"
  /\ UNCHANGED <<DEFAULT, decorator, rate, raised, enforced>>
  /\ UNCHANGED <<ivars, rvars, kvars, gvars, pvars>>

\* A request to the registered route goes through the wrappers, outermost
\* first; each checks its own limit.
Serve ==
  /\ stage = "registered"
  /\ enforced' = [i \in 1..Len(view_func.wrappers) |->
                    view_func.wrappers[Len(view_func.wrappers) + 1 - i]]
  /\ stage' = "served"
  /\ UNCHANGED <<DEFAULT, decorator, rate, view_func, raised>>
  /\ UNCHANGED <<ivars, rvars, kvars, gvars, pvars>>

NextWire ==
  \/ Decorate
  \/ add_api_operation
  \/ Serve

\* ====================================== a request to a rate-limited view
ON_RATE_LIMIT_EXCEEDED == "on_rate_limit_exceeded"

\* What backend.is_allowed hands to the wrapper: a triple, or an exception.
Verdicts ==
  {[res |-> "allowed", remaining |-> r, retry_after |-> 0] : r \in 0..1}
    \cup {[res |-> "denied", remaining |-> 0, retry_after |-> a] : a \in 1..MaxRetry}
    \cup {[res |-> "store_error", remaining |-> 0, retry_after |-> 0],
          [res |-> "index_error", remaining |-> 0, retry_after |-> 0]}

\* EventBus.emit: the loop over self._handlers.get(event, []) + self._wildcard
\* from position i on. A coroutine function is called and its coroutine handed
\* to loop.create_task when the thread has a running loop, and run to its end
\* by asyncio.run when it has none; "except Exception" logs what a handler
\* raises and goes on to the next one, and does not catch a BaseException
\* that is not an Exception (SystemExit, KeyboardInterrupt, CancelledError).
RECURSIVE emit(_, _, _, _)
emit(hs, i, kind, running) ==
  IF i > Len(hs)
    THEN [called |-> <<>>, logged |-> <<>>, tasks |-> <<>>, propagated |-> FALSE]
    ELSE LET h == hs[i]
             rest == emit(hs, i + 1, kind, running)
         IN IF kind[h].co /\ running
              THEN [rest EXCEPT !.called = <<h>> \o @, !.tasks = <<h>> \o @]
            ELSE IF kind[h].does = "BaseException"
              THEN [called |-> <<h>>, logged |-> <<>>, tasks |-> <<>>, propagated |-> TRUE]
            ELSE IF kind[h].does = "Exception"
              THEN [rest EXCEPT !.called = <<h>> \o @, !.logged = <<h>> \o @]
            ELSE [rest EXCEPT !.called = <<h>> \o @]

InitGate ==
  /\ gate \in {"rate_limit", "async_rate_limit"}
  /\ kinds \in [HandlerNames -> HandlerKinds]
  /\ _handlers = <<>> /\ _wildcard = <<>>
  \* the async wrapper runs on the loop of its request
  /\ running_loop \in (IF gate = "async_rate_limit" THEN {TRUE} ELSE BOOLEAN)
  /\ gpc = "setup" /\ verdict = NoVerdict
  /\ events = <<>> /\ called = <<>> /\ logged = <<>> /\ tasks = <<>>
  /\ invoked = FALSE /\ response = "none"
  /\ IdemAtRest /\ RLAtRest /\ KeyAtRest /\ WireAtRest /\ PageAtRest

Registered_ == Len(_handlers) + Len(_wildcard)

\* @event_bus.on("on_rate_limit_exceeded")
on(fn) ==
  /\ gpc = "setup" /\ Registered_ < MaxRegistered
  /\ _handlers' = Append(_handlers, fn)
  /\ UNCHANGED <<gate, kinds, _wildcard, running_loop, gpc, verdict, events, called,
                 logged, tasks, invoked, response>>
  /\ UNCHANGED <<ivars, rvars, kvars, wvars, pvars>>

\* event_bus.on_any(fn)
on_any(fn) ==
  /\ gpc = "setup" /\ Registered_ < MaxRegistered
  /\ _wildcard' = Append(_wildcard, fn)
  /\ UNCHANGED <<gate, kinds, _handlers, running_loop, gpc, verdict, events, called,
                 logged, tasks, invoked, response>>
  /\ UNCHANGED <<ivars, rvars, kvars, wvars, pvars>>

\* The wrapper after backend.is_allowed has returned v or raised: the view on
\* "allowed"; on a denial event_bus.emit(ON_RATE_LIMIT_EXCEEDED, **kwargs) and
\* then raise HttpError(429, error_message).
Gated(v, kwargs) ==
  /\ gpc = "setup"
  /\ verdict' = v
  /\ gpc' = "served"
  /\ CASE WrapperOutcome(v.res) = "view" ->
            /\ invoked' = TRUE /\ response' = "200"
            /\ UNCHANGED <<events, called, logged, tasks>>
       [] WrapperOutcome(v.res) = "429" ->
            LET e == emit(_handlers \o _wildcard, 1, kinds, running_loop) IN
              /\ events' = Append(events, [event |-> ON_RATE_LIMIT_EXCEEDED,
                                           kwargs |-> kwargs])
              /\ called' = e.called /\ logged' = e.logged /\ tasks' = e.tasks
              /\ response' = IF e.propagated THEN "BaseException" ELSE "429"
              /\ UNCHANGED invoked
       [] OTHER ->
            /\ response' = "error"
            /\ UNCHANGED <<events, called, logged, tasks, invoked>>
  /\ UNCHANGED <<gate, kinds, _handlers, _wildcard, running_loop>>
  /\ UNCHANGED <<ivars, rvars, kvars, wvars, pvars>>

\* rate_limit.wrapper
rate_limit_wrapper ==
  /\ gate = "rate_limit"
  /\ \E v \in Verdicts :
       Gated(v, [request |-> "request", ctx |-> "ctx", key |-> "ip:1",
                 rate |-> "10/hour", retry_after |-> v.retry_after])

\* async_rate_limit.wrapper
async_rate_limit_wrapper ==
  /\ gate = "async_rate_limit"
  /\ \E v \in Verdicts :
       Gated(v, [request |-> "request", ctx |-> "ctx", key |-> "ip:1",
                 rate |-> "10/hour"])

\* The loop runs a coroutine that emit scheduled; what it raises stays in its
\* task.
RunTask ==
  /\ gpc = "served" /\ tasks /= <<>>
  /\ tasks' = Tail(tasks)
  /\ UNCHANGED <<gate, kinds, _handlers, _wildcard, running_loop, gpc, verdict, events,
                 called, logged, invoked, response>>
  /\ UNCHANGED <<ivars, rvars, kvars, wvars, pvars>>

NextGate ==
  \/ \E fn \in HandlerNames : on(fn)
  \/ \E fn \in HandlerNames : on_any(fn)
  \/ rate_limit_wrapper
  \/ async_rate_limit_wrapper
  \/ RunTask

\* ========================================================= auto_paginate
MAX_PAGE_SIZE == 200
DEFAULT_PAGE_SIZE == 20
\* maximum: int = 2 ** 31 of _safe_int, one above the largest integer TLC
\* represents; every text of QueryTexts denotes a smaller number
DefaultMaximum == 2147483647

\* The texts of ?page= and ?size=, and request.GET.get() of a missing one.
QueryTexts ==
  {"bad", "", "2.5", "0", "-1", "1", "2", "3", " 2 ", "+2", "20", "200", "201", "99999"}
QueryValues == {PyNone} \cup {PyStr(s) : s \in QueryTexts}

\* int(value) for the texts of QueryTexts that int() reads; the others raise
\* ValueError
py_int_text ==
  [s \in {"0", "-1", "1", "2", "3", " 2 ", "+2", "20", "200", "201", "99999"} |->
     CASE s = "0" -> 0
       [] s = "-1" -> -1
       [] s = "1" -> 1
       [] s \in {"2", " 2 ", "+2"} -> 2
       [] s = "3" -> 3
       [] s = "20" -> 20
       [] s = "200" -> 200
       [] s = "201" -> 201
       [] OTHER -> 99999]

Max(a, b) == IF a >= b THEN a ELSE b
Min(a, b) == IF a <= b THEN a ELSE b

\* _safe_int: int(None) raises TypeError, int of a text that is no integer
\* ValueError; both give default.
_safe_int(value, default, minimum, maximum) ==
  IF value.t /= "str" \/ value.s \notin DOMAIN py_int_text
    THEN default
    ELSE Max(minimum, Min(maximum, py_int_text[value.s]))

\* rows[start:end] for 0 <= start <= end
Slice(rows, start, end) ==
  IF start >= Len(rows) THEN <<>> ELSE SubSeq(rows, start + 1, Min(end, Len(rows)))

\* What a view returns: None, a dict, or the rows of a list or of a QuerySet.
Rows(n) == [i \in 1..n |-> i]
ItemCounts == 0..MaxItems \cup {DEFAULT_PAGE_SIZE + 1, MAX_PAGE_SIZE + 1}
Returned ==
  {[type |-> "NoneType", rows |-> <<>>], [type |-> "dict", rows |-> <<>>]}
    \cup {[type |-> t, rows |-> Rows(n)] : t \in {"list", "QuerySet"}, n \in ItemCounts}

_is_queryset(obj) == obj.type = "QuerySet"

\* auto_paginate.wrapper with pages computed by floor division.
auto_paginate_FloorPages(res, get) ==
  IF res.type \in {"NoneType", "dict"}
    THEN [kind |-> "passed", value |-> res]
    ELSE LET page == _safe_int(get.page, 1, 1, DefaultMaximum)
             size == _safe_int(get.size, DEFAULT_PAGE_SIZE, 1, MAX_PAGE_SIZE)
             start == (page - 1) * size
             end == start + size
             total == Len(res.rows)
         IN [kind |-> "envelope", items |-> Slice(res.rows, start, end), page |-> page,
             size |-> size, total |-> total, pages |-> Max(1, total \div size)]

\* auto_paginate.wrapper once the view has returned res: None and dict pass
\* through; a QuerySet is counted with count() and sliced, a list with len().
auto_paginate(res, get) ==
  IF res.type \in {"NoneType", "dict"}
    THEN [kind |-> "passed", value |-> res]
    ELSE LET page == _safe_int(get.page, 1, 1, DefaultMaximum)
             size == _safe_int(get.size, DEFAULT_PAGE_SIZE, 1, MAX_PAGE_SIZE)
             start == (page - 1) * size
             end == start + size
             total == IF _is_queryset(res) THEN Len(res.rows) ELSE Len(res.rows)
             items == IF _is_queryset(res) THEN Slice(res.rows, start, end)
                      ELSE Slice(res.rows, start, end)
         IN [kind |-> "envelope", items |-> items, page |-> page, size |-> size,
             total |-> total, pages |-> Max(1, (total + size - 1) \div size)]

InitPage ==
  /\ GET \in [page : QueryValues, size : QueryValues]
  /\ result \in Returned
  /\ paginated = NotServed
  /\ IdemAtRest /\ RLAtRest /\ KeyAtRest /\ WireAtRest /\ GateAtRest

\* A request to the view under auto_paginate.
Paginate ==
  /\ paginated = NotServed
  /\ paginated' = auto_paginate(result, GET)
  /\ UNCHANGED <<GET, result>>
  /\ UNCHANGED <<ivars, rvars, kvars, wvars, gvars>>

NextPage == Paginate

\* The idempotent view under load, the rate limiter untouched.
SpecIdem == InitIdem /\ [][NextIdem]_vars

\* The rate limiter under load, the idempotent view untouched.
SpecRL == InitRL /\ [][NextRL]_vars

\* The rate limiter under the checks of one thread.
SpecRLSeq == InitRL /\ [][NextRLSeq]_vars

\* The cache keys of two callers.
SpecKey == InitKey /\ [][NextKey]_vars

\* A view decorated, registered with AutoRouter and served.
SpecWire == InitWire /\ [][NextWire]_vars

\* A request to a rate-limited view, with the handlers registered on the bus.
SpecGate == InitGate /\ [][NextGate]_vars

\* A request to a view under auto_paginate.
SpecPage == InitPage /\ [][NextPage]_vars

\* =================================================================== claims
\* Scenario vocabulary for the idempotent wrapper.
Key(c) == req[c].ikey
Done(c) == pc[c] = "done"
SameKey(c, d) == c /= d /\ guarded(c) /\ guarded(d) /\ Key(c) = Key(d)
\* d began after c had finished
Follows(c, d) == c \in after[d]
\* c and d were in flight together
Overlap(c, d) == pc[c] /= "idle" /\ pc[d] /= "idle" /\ ~Follows(c, d) /\ ~Follows(d, c)
\* no request other than c and d uses c's key
OnlyPair(c, d) == \A e \in Calls \ {c, d} : pc[e] = "idle" \/ ~guarded(e) \/ Key(e) /= Key(c)
Healthy(c) == faults[c] = {}
NothingLapsed == lapsed = {}
HoldsOwnLock(c) == Present(locks[Key(c)]) /\ locks[Key(c)].owner = c

\* C1: two concurrent calls with one key execute the operation exactly once in
\* total (the claim adds that the other call receives Conflict). Stated for
\* runs in which no store operation raised, no entry expired and no operation
\* failed.
C1_ExactlyOnceWhenConcurrent ==
  \A c, d \in Calls :
    (SameKey(c, d) /\ Overlap(c, d) /\ Done(c) /\ Done(d)
       /\ Healthy(c) /\ Healthy(d) /\ NothingLapsed
       /\ outcome[c].kind \notin {"raised", "cancelled"}
       /\ outcome[d].kind \notin {"raised", "cancelled"})
    => ~(executed[c] /\ executed[d])

\* C2: a call executes the operation only while the lock entry it created
\* exists, so at most one call per key executes at a time. Stated for runs in
\* which no lock entry expired.
C2_ExecutesOnlyUnderOwnLock ==
  \A c \in Calls :
    (guarded(c) /\ pc[c] = "func" /\ NothingLapsed) => HoldsOwnLock(c)

\* The scenario of C3: c ran first and returned, d came after it with the same
\* key, the store raised nothing, the result went through json.dumps and the
\* stored result had not expired.
SequentialPair(c, d) ==
  /\ SameKey(c, d) /\ OnlyPair(c, d)
  /\ Done(c) /\ Done(d) /\ Follows(c, d)
  /\ outcome[c].kind = "returned"
  /\ Healthy(c) /\ Healthy(d)
  /\ <<"result", Key(c)>> \notin lapsed

\* C3 as stated: of two sequential calls with one key the second does not
\* execute the operation, is marked as a replay and returns the same result as
\* the first.
C3_ReplayReturnsSameResult ==
  \A c, d \in Calls :
    SequentialPair(c, d)
    => /\ executed[c] /\ ~executed[d]
       /\ outcome[d].kind = "replayed"
       /\ outcome[d].val = outcome[c].val

\* Results that JSON writes and reads back unchanged.
JsonNative == {"None", "list[1,2]", "str'o'"}

\* C3 as amended: the second call does not execute the operation, is marked as
\* a replay and returns what json.loads reads from the stored text of the first
\* result: the same result when it is JSON-native, a list for a tuple, the str()
\* text for a value written through default=str.
C3_ReplayReturnsStoredResult ==
  \A c, d \in Calls :
    SequentialPair(c, d)
    => /\ executed[c] /\ ~executed[d]
       /\ outcome[d].kind = "replayed"
       /\ (outcome[c].val \in JsonNative => outcome[d].val = outcome[c].val)
       /\ (outcome[c].val = "tuple(1,2)" => outcome[d].val = "list[1,2]")
       /\ (outcome[c].val = "object<o>" => outcome[d].val = "str'o'")

C3_Witness ==
  \E c, d \in Calls :
    SequentialPair(c, d) /\ outcome[c].val = "list[1,2]" /\ outcome[d].kind = "replayed"

\* The call has left the finally block (it is storing its result or has
\* handed its outcome to the caller) after having acquired the lock.
PastFinally(c) == guarded(c) /\ lock_acquired[c] /\ pc[c] \in {"set", "done"}

C7_NeverExecutesWithoutLock ==
  \A c \in Calls : (guarded(c) /\ executed[c]) => lock_acquired[c]

\* C8: after the operation has returned and until the call returns, the key is
\* locked or completed: the result is stored before the lock is deleted. Stated
\* for runs in which no store operation raised and no entry expired.
C8_LockedOrCompletedUntilReturn ==
  \A c \in Calls :
    (guarded(c) /\ pc[c] \in {"finally", "set"} /\ outcome[c].kind = "returned"
       /\ Healthy(c) /\ NothingLapsed)
    => (Present(locks[Key(c)]) \/ Present(cache[Key(c)]))

\* The operation of c failed: it raised or was cancelled.
Failed(c) == guarded(c) /\ Done(c) /\ outcome[c].kind \in {"raised", "cancelled"}

Decided(i) == hist[i].res \in {"allowed", "denied"}
\* the checks came one after the other and each returned a decision
OneByOne == \A i \in 1..Len(hist) : hist[i].alone /\ Decided(i)
\* check i was made less than window seconds after the first check
InFirstWindow(i) == hist[i].at - hist[1].at < window * TicksPerSec

\* C4: starting from an empty window, of the consecutive checks of one key made
\* within window seconds of the first, the first limit are admitted and the
\* next one is denied (limit >= 1, both backends).
C4_LimitAdmittedThenDenied ==
  (limit >= 1 /\ OneByOne)
  => \A i \in 1..Len(hist) :
       InFirstWindow(i)
       => /\ (i <= limit => hist[i].res = "allowed")
          /\ (i = limit + 1 => hist[i].res = "denied")

C4_Witness ==
  /\ limit = 2 /\ OneByOne /\ Len(hist) = 3
  /\ InFirstWindow(3) /\ hist[3].at > hist[1].at
  /\ hist[2].res = "allowed" /\ hist[3].res = "denied"

\* C5: every denial carries a retry_after of at least 1 and at most window
\* seconds (limit >= 1, both backends).
C5_RetryAfterWithinWindow ==
  \A i \in 1..Len(hist) :
    (limit >= 1 /\ hist[i].res = "denied")
    => (1 <= hist[i].retry /\ hist[i].retry <= window)

\* C10: a check during which the store raised does not raise to the caller: the
\* request is treated as allowed and the view runs.
C10_StoreErrorFailsOpen ==
  \A i \in 1..Len(hist) : hist[i].res = "store_error" => hist[i].http = "view"

\* Scenario vocabulary for the cache keys.
Built(c) == cache_key[c] /= NotBuilt
\* the identity of the caller: the user id the wrapper takes from ctx
Identity(c) == _extract_user_id(ctx[c])

\* C11: under the per-caller scope, two callers of distinct identities who
\* present one key string to one operation get distinct cache keys, whatever
\* the identities are (falsy, anonymous, with a ":" in them).
C11_DistinctCallersDistinctKeys ==
  \A a, b \in Callers :
    (scope = "user" /\ Built(a) /\ Built(b)
       /\ func_name[a] = func_name[b] /\ header[a] = header[b]
       /\ Identity(a) /= Identity(b))
    => cache_key[a] /= cache_key[b]

\* Scenario vocabulary for the checks of one client over time.
WindowTicks == window * TicksPerSec
\* check i is the first check made after the window of check 1: it was made
\* window seconds or more after check 1 returned, the checks before it less
\* than window seconds after check 1 was made
FirstAfterWindow(i) ==
  /\ i > 1
  /\ hist[i].at >= hist[1].end + WindowTicks
  /\ \A j \in 2..(i - 1) : hist[j].at < hist[1].at + WindowTicks

\* C12: once window seconds have passed since the first admitted check (the
\* one that opened the window) returned, the next check of the key is admitted
\* (limit >= 1, both backends, checks one after the other).
C12_AdmittedOnceWindowPassed ==
  (limit >= 1 /\ OneByOne /\ Len(hist) >= 1 /\ hist[1].res = "allowed")
  => \A i \in 1..Len(hist) : FirstAfterWindow(i) => hist[i].res = "allowed"

C12_Witness ==
  /\ limit = 1 /\ OneByOne /\ Len(hist) = 3
  /\ hist[1].res = "allowed" /\ hist[2].res = "denied"
  /\ FirstAfterWindow(3) /\ hist[3].res = "allowed"

\* check i was made retry_after seconds or more after the denial j returned,
\* and no check between the two was admitted
RetriedAfter(j, i) ==
  /\ j < i
  /\ hist[j].res = "denied"
  /\ hist[i].at >= hist[j].end + hist[j].retry * TicksPerSec
  /\ \A k \in (j + 1)..(i - 1) : hist[k].res /= "allowed"

\* C13: a check made retry_after seconds or more after a denial that reported
\* retry_after, with no check admitted in between, is admitted (limit >= 1,
\* both backends, checks one after the other).
C13_AdmittedAfterRetryAfter ==
  (limit >= 1 /\ OneByOne)
  => \A j, i \in 1..Len(hist) : RetriedAfter(j, i) => hist[i].res = "allowed"

C13_Witness ==
  \E j, i \in 1..Len(hist) :
    /\ limit >= 1 /\ OneByOne /\ RetriedAfter(j, i)
    /\ hist[j].retry >= 1 /\ hist[i].res = "allowed"

\* The scenario of C14: c ran first, returned and stored its result; d came
\* with the same key after c had finished and after the TTL of the stored
\* result had elapsed; the store raised nothing for c.
AfterTtl(c, d) ==
  /\ SameKey(c, d) /\ OnlyPair(c, d)
  /\ Done(c) /\ Follows(c, d)
  /\ outcome[c].kind = "returned" /\ Healthy(c)
  /\ stale[d]

\* C14: a call repeated with the same key after the TTL of the stored result
\* has elapsed finds no record: it is not answered with a replay (or a
\* conflict), and it executes the operation again.
C14_ExecutesAgainAfterTtl ==
  \A c, d \in Calls :
    AfterTtl(c, d)
    => /\ outcome[d].kind \notin {"replayed", "conflict"}
       /\ (pc[d] \notin {"get", "add"} => executed[d])

C14_Witness ==
  \E c, d \in Calls :
    /\ AfterTtl(c, d) /\ Healthy(d) /\ Done(d)
    /\ executed[c] /\ executed[d] /\ outcome[d].kind = "returned"

\* The request came without the X-Idempotency-Key header.
NoHeader(c) == pc[c] /= "idle" /\ Key(c) = NoKey

\* C17: a call without the key header executes the operation, every time, and
\* leaves the store alone: it is never at a store operation (no lookup, no
\* lock, no delete, no result stored), and no entry of the store is its own.
C17_NoHeaderNoCoordination ==
  \A c \in Calls :
    NoHeader(c)
    => /\ pc[c] \in {"func", "done"}
       /\ executed[c]
       /\ ~lock_acquired[c] /\ faults[c] = {}
       /\ \A k \in IdemKeys : cache[k].owner /= c /\ locks[k].owner /= c
       /\ outcome[c].kind \in {"none", "returned", "raised", "cancelled"}

C17_Witness ==
  \E c, d \in Calls :
    /\ c /= d /\ NoHeader(c) /\ NoHeader(d) /\ Follows(c, d)
    /\ req[c].method = "POST" /\ req[d].method = "POST"
    /\ Done(c) /\ Done(d) /\ executed[c] /\ executed[d]
    /\ outcome[c].kind = "returned" /\ outcome[d].kind = "returned"
    /\ \A k \in IdemKeys : cache[k] = NoEntry /\ locks[k] = NoEntry

\* Storing the result of c failed: json.dumps or cache.set raised.
PersistFailed(c) == guarded(c) /\ faults[c] \cap {"dumps", "set"} /= {}

C19_ReadErrorIsAMiss ==
  \A c \in Calls :
    "get" \in faults[c]
    => /\ outcome[c].kind \in {"none", "conflict", "returned", "raised", "cancelled"}
       /\ \/ pc[c] = "add"
          \/ "add" \in faults[c]
          \/ lock_acquired[c]
          \/ outcome[c].kind = "conflict"
       /\ (lock_acquired[c] => executed[c])

C19_Witness ==
  \E c, d \in Calls :
    /\ SameKey(c, d) /\ Follows(d, c) /\ outcome[d].kind = "returned" /\ Healthy(d)
    /\ faults[c] = {"get"} /\ lock_acquired[c] /\ executed[c]
    /\ Done(c) /\ outcome[c].kind = "returned"

\* Scenario vocabulary for the wiring of a route.
\* The expressions of the form <positive-integer>/<unit>, letter case and
\* blanks around the two fields aside.
PositiveIntegers == {"10", "1", "5", "2"}
Units == {"second", "minute", "hour", "day"}
WellFormed(e) ==
  /\ Len(e) = 2
  /\ strip(lower(e[1])) \in PositiveIntegers
  /\ strip(lower(e[2])) \in Units
\* the decorator of the view has run
PastDecoration == decorator /= "none" /\ stage /= "defined"
Accepted == PastDecoration /\ stage /= "failed"
Registered == stage \in {"registered", "served"}

\* C15: _parse_rate accepts exactly the expressions <positive-integer>/<unit>
\* and returns (N, seconds of the unit), "10/hour" giving (10, 3600); every
\* other expression (a zero or negative count, an unknown unit, a missing or an
\* extra "/") raises the error that names the expression.
C15_AcceptsExactlyPositiveCountPerUnit ==
  PastDecoration
  => /\ Accepted <=> WellFormed(rate)
     /\ Accepted
        => /\ view_func.wrappers[1].limit > 0
           /\ view_func.wrappers[1].window = _PERIOD_SECONDS[strip(lower(rate[2]))]
     /\ (Accepted /\ rate = <<"10", "hour">>)
        => (view_func.wrappers[1].limit = 10 /\ view_func.wrappers[1].window = 3600)
     /\ stage = "failed"
        => raised = [at |-> "decoration", msg |-> InvalidRate(rate).msg]

\* C16: an expression _parse_rate rejects is an error when the route is set
\* up: the decorator of the view raises it, and registering a view that has
\* no limit of its own raises it for the global DEFAULT, so that no such view
\* is registered (and served without a limit).
C16_InvalidRateFailsAtSetup ==
  /\ (PastDecoration /\ ~_parse_rate(rate).ok)
     => (stage = "failed" /\ raised.at = "decoration")
  /\ (decorator = "none" /\ DEFAULT /= NoRate /\ ~_parse_rate(DEFAULT).ok)
     => ~Registered

\* C20: a view that carries a limit of its own is registered with that limit
\* only: AutoRouter puts no wrapper of the global DEFAULT around it, whether
\* the view is sync or async.
C20_PerRouteLimitNotWrappedAgain ==
  (decorator /= "none" /\ Registered) => Len(view_func.wrappers) = 1

\* Scenario vocabulary for a request to a rate-limited view.
Served == gpc = "served"
Denied == Served /\ verdict.res = "denied"
Subscribers == _handlers \o _wildcard
SinkFailed == \E i \in 1..Len(called) : kinds[called[i]].does /= "returns"

\* C21: a failure in the notification sink never changes the outcome of a
\* gated call: after a denial event_bus.emit has propagated nothing, so the
\* caller has its 429, and every handler registered for the event, followed by
\* every wildcard handler, was called once, in registration order.
C21_SinkFailureNeverChangesOutcome ==
  Denied => /\ response = "429"
            /\ called = Subscribers

\* C22: whenever the backend denies a check, the wrapped view is not invoked,
\* the caller receives HTTP 429, and exactly one on_rate_limit_exceeded event
\* carrying the key, the rate and the retry_after value of the denial was
\* emitted, under rate_limit and under async_rate_limit.
C22_DenialIs429WithOneEvent ==
  Denied => /\ ~invoked
            /\ response = "429"
            /\ Len(events) = 1
            /\ events[1].event = ON_RATE_LIMIT_EXCEEDED
            /\ {"key", "rate", "retry_after"} \subseteq DOMAIN events[1].kwargs
            /\ events[1].kwargs.retry_after = verdict.retry_after

\* Scenario vocabulary for concurrent checks of one key.
Admitted == {i \in 1..Len(hist) : hist[i].res = "allowed"}
\* less than window seconds have passed since the first check was made: no
\* counter created so far has reached its timeout
InOneLifetime == rnow < WindowTicks

\* C23: with CacheBackend, whatever the interleaving of the concurrent checks
\* of one key during one lifetime of its counter, the number of checks
\* returned as allowed never exceeds limit.
C23_CacheAdmitsAtMostLimit ==
  (backend = "cache" /\ InOneLifetime) => Cardinality(Admitted) <= limit

\* Scenario vocabulary for the stored window of a key.
\* the last check of key k that returned a decision
LastDecided(k) ==
  LET done == {i \in 1..Len(hist) : hist[i].key = k /\ Decided(i)} IN
  IF done = {} THEN 0 ELSE CHOOSE i \in done : \A j \in done : j <= i

C25_CounterLifetimeNeverExtended ==
  [][\A k \in RLKeys :
       (Live(k) /\ counter'[k] /= NoCounter) => counter'[k].exp <= counter[k].exp]_vars

\* Scenario vocabulary for the quota a check consumes.
\* the admitted checks of key k made at time at
AdmittedAt(k, at) == {j \in Admitted : hist[j].key = k /\ hist[j].at = at}
\* the positions of the stored window of k that hold the timestamp at
StoredAt(k, at) == {p \in 1..Len(store[k]) : store[k][p] = at}
\* the admitted checks before check i that are still inside the window of i
AdmittedInWindowOf(i) ==
  {j \in Admitted : j < i /\ hist[j].key = hist[i].key
                          /\ hist[j].at > hist[i].at - WindowTicks}

\* C26: a denied check on InMemoryBackend consumes no quota: every timestamp
\* in the window of a key is the timestamp of an admitted check, so a check is
\* admitted as soon as fewer than limit admitted checks lie within its
\* window, however many denied checks came before it.
C26_DeniedCheckConsumesNothing ==
  backend = "memory" =>
    /\ \A k \in RLKeys : \A p \in 1..Len(store[k]) :
         Cardinality(StoredAt(k, store[k][p])) <= Cardinality(AdmittedAt(k, store[k][p]))
    /\ \A i \in 1..Len(hist) :
         (Decided(i) /\ Cardinality(AdmittedInWindowOf(i)) < limit)
           => hist[i].res = "allowed"

\* An admitted check, then a denied one, then one admitted once the first has
\* left the window.
C26_Witness ==
  /\ backend = "memory" /\ Len(hist) = 3
  /\ hist[1].res = "allowed" /\ hist[2].res = "denied" /\ hist[3].res = "allowed"
  /\ hist[3].at < hist[2].at + WindowTicks

\* C27: an idempotency record is created only after its operation completed
\* successfully and is immutable until it expires: while a record exists for a
\* key, no step overwrites the stored result and no call with that key starts
\* executing the operation, including when the read of the store fails.
C27_RecordImmutableUntilExpiry ==
  [][\A k \in IdemKeys :
       Present(cache[k]) =>
         /\ outcome[cache[k].owner].kind = "returned"
         /\ cache'[k] \in {cache[k], NoEntry}
         /\ \A c \in Calls :
              (req'[c].method \in _methods /\ req'[c].ikey = k /\ ~executed[c])
                => ~executed'[c]]_vars

\* C29: a call releases only the lock entry it created itself: the step that
\* takes a call through its finally block leaves a live lock entry created by
\* another call as it is, also when the call's own entry expired while its
\* operation was still running and a second call acquired the lock since.
C29_FinallyDeletesOnlyOwnLock ==
  [][\A c \in Calls, k \in IdemKeys :
       (pc[c] = "finally" /\ pc'[c] /= "finally"
          /\ Present(locks[k]) /\ locks[k].owner /= c)
         => locks'[k] = locks[k]]_vars

\* C30: InMemoryBackend.is_allowed never raises and returns remaining >= 0, for
\* every (limit, window) that _parse_rate can return and every stored window,
\* the empty one included.
C30_InMemoryAlwaysReturnsATriple ==
  backend = "memory" =>
    \A i \in 1..Len(hist) : Decided(i) /\ hist[i].remaining >= 0

\* Scenario vocabulary for a paginated response.
\* the number a query value asks for, or the default when the value is missing
\* or is not an integer
Asked(v, default) ==
  IF v.t = "str" /\ v.s \in DOMAIN py_int_text THEN py_int_text[v.s] ELSE default
AskedPage == Max(1, Asked(GET.page, 1))
AskedSize == Min(200, Max(1, Asked(GET.size, 20)))
\* ceil(n / d)
Ceil(n, d) == CHOOSE q \in 0..n : q * d >= n /\ (q = 0 \/ (q - 1) * d < n)
\* rows[(page-1)*size : page*size]
PageOf(rows, page, size) ==
  LET inPage == {i \in 1..Len(rows) : (page - 1) * size < i /\ i <= page * size} IN
  [j \in 1..Cardinality(inPage) |-> rows[(page - 1) * size + j]]

\* C28: for a view returning a list of n items, auto_paginate returns
\* items = list[(page-1)*size : page*size], total = n and
\* pages = max(1, ceil(n/size)), with page the ?page value clamped to at least
\* 1 (1 when missing or not an integer) and size the ?size value clamped to
\* [1, 200] (20 when missing or not an integer); a dict and None are passed
\* through unchanged.
C28_PaginatesListsPassesDictAndNone ==
  paginated /= NotServed =>
    /\ result.type \in {"NoneType", "dict"} =>
         paginated = [kind |-> "passed", value |-> result]
    /\ result.type = "list" =>
         /\ paginated.kind = "envelope"
         /\ paginated.items = PageOf(result.rows, AskedPage, AskedSize)
         /\ paginated.total = Len(result.rows)
         /\ paginated.pages = Max(1, Ceil(Len(result.rows), AskedSize))

\* The second page of a list of 21 items under the default size.
C28_Witness ==
  /\ result.type = "list" /\ Len(result.rows) = 21
  /\ GET.page = PyStr("2") /\ GET.size = PyNone
  /\ paginated.kind = "envelope"
  /\ paginated.items = <<21>> /\ paginated.pages = 2

====
